---------------------------- MODULE Spec2Model ----------------------------
(***************************************************************************)
(* libdns/dnsupdate: the libdns provider for DNS UPDATE (RFC 2136) and     *)
(* AXFR.                                                                   *)
(*                                                                         *)
(* The source tree holds two revisions of the provider:                    *)
(*   rev = 1   src/provider.go          (libdns v0.2: records carry an ID, *)
(*             SetRecords builds its remove list from the record IDs)      *)
(*   rev = 2   src/unnamed/part_001     (libdns v1: SetRecords fetches the *)
(*             zone by AXFR and diffs, the TSIG secret is base64-decoded)  *)
(* A build compiles exactly one of them; the model draws rev in Init and   *)
(* every handler follows the code of that revision.                        *)
(*                                                                         *)
(* The DNS server and the miekg/dns and libdns libraries are outside the   *)
(* repository.  The server keeps one zone as a set of resource records and *)
(* applies an UPDATE message's inserts, then its removes, as set           *)
(* operations.  A round trip is atomic: the server answers with an rcode,  *)
(* or the connection fails before anything is sent.                        *)
(***************************************************************************)
EXTENDS Naturals, Sequences, FiniteSets, TLC

(***************************************************************************)
(* Bounds                                                                  *)
(***************************************************************************)
\* longest record list a caller passes to Append/Set/DeleteRecords
MaxLen == 2
\* longest record list of each of the two racing SetRecords calls
MaxRaceLen == 1

(***************************************************************************)
(* Program constants                                                       *)
(***************************************************************************)
\* time.Second, with durations counted in milliseconds
Second == 1000

Procs == {1, 2}
ZoneName == <<"example", "com">>
Range(s) == {s[i] : i \in 1..Len(s)}

(***************************************************************************)
(* Errors: [kind, detail].  NoErr is Go's nil error.                       *)
(***************************************************************************)
NoErr == [kind |-> "nil", detail |-> ""]
Err(k, d) == [kind |-> k, detail |-> d]

(***************************************************************************)
(* Resource records (dns.RR) and their zone-file text.                     *)
(* A name is its sequence of labels; an absolute name ends with the        *)
(* zone's labels.  rdata is the canonical presentation of the data.        *)
(***************************************************************************)
NilRR == [name |-> <<>>, ttl |-> 0, type |-> "", rdata |-> ""]

\* libdns.AbsoluteName: the name followed by the zone ("@"/"" is <<>>); it
\* does not look whether the name already ends with the zone
AbsoluteName(name, zone) == name \o zone

\* libdns.RelativeName: the fqdn with the zone suffix trimmed
RelativeName(fqdn, zone) ==
    LET n == Len(fqdn) - Len(zone)
    IN  IF n >= 0 /\ SubSeq(fqdn, n + 1, Len(fqdn)) = zone
        THEN SubSeq(fqdn, 1, n)
        ELSE fqdn

Quote(v) == "\"" \o v \o "\""
IPv4Texts == {"1.2.3.4"}
QuotedTexts == {Quote("hello"), Quote("1.2.3.4")}

\* the rdata grammar of dns.NewRR: an A record takes an IPv4 address, a TXT
\* record any text, which it stores (and prints) quoted
ParseRdata(type, v) ==
    CASE type = "A"   -> IF v \in IPv4Texts THEN [ok |-> TRUE, rdata |-> v]
                         ELSE [ok |-> FALSE, rdata |-> ""]
      [] type = "TXT" -> [ok |-> TRUE,
                          rdata |-> IF v \in QuotedTexts THEN v ELSE Quote(v)]
      [] OTHER        -> [ok |-> FALSE, rdata |-> ""]

\* dns.NewRR on the text "<fqdn> <ttl> IN <type> <data>"
NewRR(fqdn, ttl, type, data) ==
    LET p == ParseRdata(type, data)
    IN  IF p.ok
        THEN [err |-> NoErr,
              rr |-> [name |-> fqdn, ttl |-> ttl, type |-> type, rdata |-> p.rdata]]
        ELSE [err |-> Err("dns: bad rdata", type), rr |-> NilRR]

\* A zone-file line: a string.  form "canon" is what rr.String() prints,
\* "spaces" is another spelling of the same record, "garbage" does not parse,
\* "none" is the empty string.
Text(form, rr) == [form |-> form, rr |-> rr]
NoID == Text("none", NilRR)
\* rr.String()
String(rr) == Text("canon", rr)

\* parseRecordID
parseRecordID(id) ==
    IF id.form \in {"canon", "spaces"}
    THEN [err |-> NoErr, rr |-> id.rr]
    ELSE [err |-> Err("invalid record ID", id.form), rr |-> NilRR]

\* formatRecordID
formatRecordID(rr, zone) ==
    String([rr EXCEPT !.name = AbsoluteName(rr.name, zone)])

\* marshalRecord.  The uint32 conversion of the TTL wraps at 2^32 seconds,
\* which no duration drawn here comes near (and TLC's integers cannot hold).
marshalRecord(zone, record) ==
    LET fqdn == AbsoluteName(record.Name, zone)
        ttl  == record.TTL \div Second
    IN  NewRR(fqdn, ttl, record.Type, record.Value)

\* index of the first record of the list that does not marshal, 0 if none
FirstBad(zone, records) ==
    LET bad == {i \in 1..Len(records) : marshalRecord(zone, records[i]).err # NoErr}
    IN  IF bad = {} THEN 0 ELSE CHOOSE i \in bad : \A j \in bad : i <= j

\* a plausible slip: a record that does not marshal is skipped
marshalRecordsSkipBad(zone, records) ==
    LET good == SelectSeq(records, LAMBDA r : marshalRecord(zone, r).err = NoErr)
    IN  [err |-> NoErr,
         rrs |-> [i \in 1..Len(good) |-> marshalRecord(zone, good[i]).rr]]

\* marshalRecords of src/provider.go: nil and the error at the first bad record
marshalRecords1(zone, records) ==
    LET b == FirstBad(zone, records)
    IN  IF b = 0
        THEN [err |-> NoErr,
              rrs |-> [i \in 1..Len(records) |-> marshalRecord(zone, records[i]).rr]]
        ELSE [err |-> marshalRecord(zone, records[b]).err, rrs |-> <<>>]

\* marshalRecords of part_001: the records before the bad one, and the error
marshalRecords2(zone, records) ==
    LET b == FirstBad(zone, records)
    IN  IF b = 0
        THEN [err |-> NoErr,
              rrs |-> [i \in 1..Len(records) |-> marshalRecord(zone, records[i]).rr]]
        ELSE [err |-> marshalRecord(zone, records[b]).err,
              rrs |-> [i \in 1..(b - 1) |-> marshalRecord(zone, records[i]).rr]]

\* unmarshalRecords of src/provider.go: Name is the header's (absolute) name
unmarshalRecords1(zone, rrs) ==
    [i \in 1..Len(rrs) |->
        [ID    |-> formatRecordID(rrs[i], zone),
         Type  |-> rrs[i].type,
         Name  |-> rrs[i].name,
         Value |-> rrs[i].rdata,
         TTL   |-> rrs[i].ttl * Second]]

\* unmarshalRecords of part_001: Name is made relative to the zone; the
\* libdns.RR parses into its typed record without change of the four fields
unmarshalRecords2(zone, rrs) ==
    [i \in 1..Len(rrs) |->
        [ID    |-> NoID,
         Type  |-> rrs[i].type,
         Name  |-> RelativeName(rrs[i].name, zone),
         Value |-> rrs[i].rdata,
         TTL   |-> rrs[i].ttl * Second]]

(***************************************************************************)
(* DNS messages                                                            *)
(***************************************************************************)
\* query.SetAxfr(zone)
AxfrMsg == [kind |-> "AXFR", insert |-> <<>>, remove |-> <<>>]
\* query.SetUpdate(zone); query.Insert(ins); query.Remove(rem)
UpdateMsg(ins, rem) == [kind |-> "UPDATE", insert |-> ins, remove |-> rem]

Rcodes == {"NOERROR", "REFUSED"}
\* what an exchange can end in: an rcode, or a connection failure
Outcomes == Rcodes \cup {"neterr"}

RECURSIVE SetToSeq(_)
SetToSeq(S) ==
    IF S = {} THEN <<>>
    ELSE LET x == CHOOSE y \in S : TRUE IN <<x>> \o SetToSeq(S \ {x})

\* the server: an UPDATE's inserts, then its removes, on the zone's record set
ServerApply(z, msg) ==
    IF msg.kind = "UPDATE"
    THEN (z \cup Range(msg.insert)) \ Range(msg.remove)
    ELSE z

(***************************************************************************)
(* State                                                                   *)
(***************************************************************************)
VARIABLES
    rev,      \* the revision of the provider that was built
    tsig,     \* Provider.TSIG, as its colon-separated fields
    zoneRRs,  \* the server's record set of the zone
    callers,  \* the callers that run: one, or two racing
    call      \* per caller: the call in progress or last returned

vars == <<rev, tsig, zoneRRs, callers, call>>

ValidBase64(s) == s \in {"c2VjcmV0"}

\* Provider.TSIG values: "" and a well-formed one,
GoodTSIGs == { <<"">>, <<"hmac-sha256", "mykey", "c2VjcmV0">> }
\* and two fields, a secret that is not base64, an empty key name
TSIGs == GoodTSIGs \cup { <<"bad", "format">>,
                          <<"a", "b", "not-base64!">>,
                          <<"hmac-sha256", "", "c2VjcmV0">> }

\* client.ExchangeContext / client.Exchange and the server behind it, ended
\* by outcome o: the message on the wire (if any), the reply, the new zone
Exchange(query, o, signErr) ==
    IF signErr # NoErr
    THEN [err |-> signErr, rcode |-> "", answer |-> <<>>, zone |-> zoneRRs, sent |-> <<>>]
    ELSE IF o = "neterr"
    THEN [err |-> Err("transport", "connection failed"), rcode |-> "",
          answer |-> <<>>, zone |-> zoneRRs, sent |-> <<>>]
    ELSE [err |-> NoErr, rcode |-> o,
          answer |-> IF o = "NOERROR" /\ query.kind = "AXFR"
                     THEN SetToSeq(zoneRRs) ELSE <<>>,
          zone |-> IF o = "NOERROR" THEN ServerApply(zoneRRs, query) ELSE zoneRRs,
          sent |-> << [msg |-> query, rcode |-> o] >>]

\* a plausible slip: the reply's rcode is not looked at
roundTrip2NoRcodeCheck(query, o) ==
    IF tsig # <<"">> /\ Len(tsig) # 3
    THEN [err |-> Err("invalid TSIG format", ToString(Len(tsig))),
          answer |-> <<>>, zone |-> zoneRRs, sent |-> <<>>]
    ELSE IF tsig # <<"">> /\ ~ValidBase64(tsig[3])
    THEN [err |-> Err("invalid TSIG secret", tsig[3]),
          answer |-> <<>>, zone |-> zoneRRs, sent |-> <<>>]
    ELSE LET x == Exchange(query, o, NoErr)
         IN  [err |-> x.err, answer |-> x.answer, zone |-> x.zone, sent |-> x.sent]

\* Provider.roundTrip of src/provider.go.  miekg/dns v1 decodes the base64
\* secret when it signs, before it writes the message.
roundTrip1(query, o) ==
    IF tsig # <<"">> /\ Len(tsig) # 3
    THEN [err |-> Err("invalid TSIG format", ToString(Len(tsig))),
          answer |-> <<>>, zone |-> zoneRRs, sent |-> <<>>]
    ELSE LET signErr == IF tsig # <<"">> /\ ~ValidBase64(tsig[3])
                        THEN Err("dns: bad base64", tsig[3]) ELSE NoErr
             x == Exchange(query, o, signErr)
         IN  IF x.err # NoErr
             THEN [err |-> x.err, answer |-> <<>>, zone |-> x.zone, sent |-> x.sent]
             ELSE IF x.rcode # "NOERROR"
             THEN [err |-> Err("DNS error", x.rcode),
                   answer |-> <<>>, zone |-> x.zone, sent |-> x.sent]
             ELSE [err |-> NoErr, answer |-> x.answer, zone |-> x.zone, sent |-> x.sent]

\* Provider.roundTrip of part_001: the secret is base64-decoded first
roundTrip2(query, o) ==
    IF tsig # <<"">> /\ Len(tsig) # 3
    THEN [err |-> Err("invalid TSIG format", ToString(Len(tsig))),
          answer |-> <<>>, zone |-> zoneRRs, sent |-> <<>>]
    ELSE IF tsig # <<"">> /\ ~ValidBase64(tsig[3])
    THEN [err |-> Err("invalid TSIG secret", tsig[3]),
          answer |-> <<>>, zone |-> zoneRRs, sent |-> <<>>]
    ELSE LET x == Exchange(query, o, NoErr)
         IN  IF x.err # NoErr
             THEN [err |-> x.err, answer |-> <<>>, zone |-> x.zone, sent |-> x.sent]
             ELSE IF x.rcode # "NOERROR"
             THEN [err |-> Err("DNS error", x.rcode),
                   answer |-> <<>>, zone |-> x.zone, sent |-> x.sent]
             ELSE [err |-> NoErr, answer |-> x.answer, zone |-> x.zone, sent |-> x.sent]

roundTrip(query, o) == IF rev = 1 THEN roundTrip1(query, o) ELSE roundTrip2(query, o)
marshalRecords(zone, records) ==
    IF rev = 1 THEN marshalRecords1(zone, records) ELSE marshalRecords2(zone, records)
unmarshalRecords(zone, rrs) ==
    IF rev = 1 THEN unmarshalRecords1(zone, rrs) ELSE unmarshalRecords2(zone, rrs)

(***************************************************************************)
(* What callers pass in                                                    *)
(***************************************************************************)
Rec(id, type, value, ttl) ==
    [ID |-> id, Type |-> type, Name |-> <<"www">>, Value |-> value, TTL |-> ttl]

\* the A record of www as the zone holds it with a TTL of one second
OldA == [name |-> AbsoluteName(<<"www">>, ZoneName), ttl |-> 1, type |-> "A",
         rdata |-> "1.2.3.4"]

\* records without ID: an A record with a TTL of 1.5 s and of 2 s, a TXT
\* record with unquoted text, and an A record whose data is no address
PlainRecords ==
    { Rec(NoID, "A", "1.2.3.4", 1500), Rec(NoID, "A", "1.2.3.4", 2000),
      Rec(NoID, "TXT", "hello", 1500), Rec(NoID, "A", "hello", 1500) }

\* records with an ID (libdns v0.2 only): the ID of the unchanged record, the
\* ID of the record before its TTL was changed, the same ID spelt with
\* spaces, and an ID that is no zone-file line
IDRecords ==
    { Rec(String(OldA), "A", "1.2.3.4", 1500),
      Rec(String(OldA), "A", "1.2.3.4", 2000),
      Rec(Text("spaces", OldA), "A", "1.2.3.4", 1500),
      Rec(Text("garbage", NilRR), "TXT", "hello", 1500) }

SeqsUpTo(S, n) == UNION { [1..k -> S] : k \in 0..n }

\* the record lists passed to a call, and to each of two racing calls
Lists1 == SeqsUpTo(PlainRecords \cup IDRecords, MaxLen)
Lists2 == SeqsUpTo(PlainRecords, MaxLen)
Lists == IF rev = 1 THEN Lists1 ELSE Lists2
RaceLists1 == SeqsUpTo(PlainRecords \cup IDRecords, MaxRaceLen)
RaceLists2 == SeqsUpTo(PlainRecords, MaxRaceLen)
RaceLists == IF rev = 1 THEN RaceLists1 ELSE RaceLists2

\* the records a zone can hold
ZoneDomain ==
    { OldA, [OldA EXCEPT !.ttl = 2],
      [OldA EXCEPT !.type = "TXT", !.rdata = Quote("hello")] }

(***************************************************************************)
(* Calls                                                                   *)
(***************************************************************************)
IdleCall ==
    [pc |-> "idle", op |-> "none", records |-> <<>>, answer |-> <<>>,
     msgs |-> <<>>, ret |-> <<>>, err |-> NoErr, zoneBefore |-> {},
     again |-> FALSE, readAfter |-> {}, updAfter |-> {}]

\* A caller makes a call with any arguments and, when it runs alone, may make
\* the same call again.  The provider keeps nothing between calls and Init
\* draws the zone's content freely, so a call that follows other calls starts
\* from a state that a first call starts from too.
Ready(p, op, records) ==
    /\ p \in callers
    /\ \/ call[p].pc = "idle"
       \/ /\ callers = {p}
          /\ call[p].pc = "done"
          /\ call[p].op = op
          /\ call[p].records = records

\* the record lists p's next call can be given, of the lists a first call draws
Args(p, lists) == IF call[p].pc = "idle" THEN lists ELSE {call[p].records}

\* the call repeats, argument for argument, the caller's previous call, which
\* returned without error
Again(p, op, records) ==
    /\ call[p].pc = "done"
    /\ call[p].op = op
    /\ call[p].records = records
    /\ call[p].err = NoErr

\* the server has applied an update of q's call
Applied(q) ==
    \E i \in 1..Len(call[q].msgs) :
        /\ call[q].msgs[i].msg.kind = "UPDATE"
        /\ call[q].msgs[i].rcode = "NOERROR"

OthersApplied(p) == {q \in Procs \ {p} : Applied(q)}

Start(p, op, records) ==
    [IdleCall EXCEPT !.pc = "running", !.op = op, !.records = records,
                     !.zoneBefore = zoneRRs, !.again = Again(p, op, records)]

Return(c, ret, err) == [c EXCEPT !.pc = "done", !.ret = ret, !.err = err]

\* GetRecords: one AXFR round trip
GetRecords(p) ==
    /\ Ready(p, "Get", <<>>)
    /\ \E o \in Outcomes :
        LET r == roundTrip(AxfrMsg, o)
            c == [Start(p, "Get", <<>>) EXCEPT !.msgs = r.sent, !.answer = r.answer,
                                               !.readAfter = OthersApplied(p)]
        IN  /\ call' = [call EXCEPT ![p] =
                    IF r.err # NoErr THEN Return(c, <<>>, r.err)
                    ELSE Return(c, unmarshalRecords(ZoneName, r.answer), NoErr)]
            /\ zoneRRs' = r.zone
    /\ UNCHANGED <<rev, tsig, callers>>

\* a plausible slip: the update also removes what it inserts
AppendUpdateAlsoRemoves(rrs) == UpdateMsg(rrs, rrs)

\* the update AppendRecords builds
AppendUpdate(rrs) == UpdateMsg(rrs, <<>>)

\* AppendRecords: marshal, one UPDATE round trip
AppendRecords(p, records) ==
    /\ Ready(p, "Append", records)
    /\ \E o \in Outcomes :
        LET c == Start(p, "Append", records)
            m == marshalRecords(ZoneName, records)
            r == roundTrip(AppendUpdate(m.rrs), o)
            c1 == [c EXCEPT !.msgs = r.sent, !.updAfter = OthersApplied(p)]
        IN  IF m.err # NoErr
            THEN /\ call' = [call EXCEPT ![p] = Return(c, <<>>, m.err)]
                 /\ zoneRRs' = zoneRRs
            ELSE /\ call' = [call EXCEPT ![p] =
                        IF r.err # NoErr THEN Return(c1, <<>>, r.err)
                        ELSE Return(c1, unmarshalRecords(ZoneName, m.rrs), NoErr)]
                 /\ zoneRRs' = r.zone
    /\ UNCHANGED <<rev, tsig, callers>>

\* the remove loop of SetRecords in src/provider.go: a record without ID, or
\* whose ID is the text of an inserted RR, is skipped; the others' IDs are
\* parsed, and the first that does not parse ends the call
RemoveRRs1(records, m) ==
    LET kept == SelectSeq(records, LAMBDA r : r.ID # NoID /\ r.ID \notin m)
        bad  == {i \in 1..Len(kept) : parseRecordID(kept[i].ID).err # NoErr}
    IN  IF bad = {}
        THEN [err |-> NoErr, rrs |-> [i \in 1..Len(kept) |-> parseRecordID(kept[i].ID).rr]]
        ELSE [err |-> parseRecordID(kept[CHOOSE i \in bad : \A j \in bad : i <= j].ID).err,
              rrs |-> <<>>]

\* SetRecords of src/provider.go: marshal, remove list from the IDs, one
\* UPDATE round trip
SetRecords1(p, records) ==
    /\ rev = 1
    /\ Ready(p, "Set", records)
    /\ \E o \in Outcomes :
        LET c == Start(p, "Set", records)
            m == marshalRecords1(ZoneName, records)
            fp == {String(rr) : rr \in Range(m.rrs)}
            rem == RemoveRRs1(records, fp)
            r == roundTrip1(UpdateMsg(m.rrs, rem.rrs), o)
            c1 == [c EXCEPT !.msgs = r.sent, !.updAfter = OthersApplied(p)]
        IN  IF m.err # NoErr
            THEN /\ call' = [call EXCEPT ![p] = Return(c, <<>>, m.err)]
                 /\ zoneRRs' = zoneRRs
            ELSE IF rem.err # NoErr
            THEN /\ call' = [call EXCEPT ![p] = Return(c, <<>>, rem.err)]
                 /\ zoneRRs' = zoneRRs
            ELSE /\ call' = [call EXCEPT ![p] =
                        IF r.err # NoErr THEN Return(c1, <<>>, r.err)
                        ELSE Return(c1, unmarshalRecords1(ZoneName, m.rrs), NoErr)]
                 /\ zoneRRs' = r.zone
    /\ UNCHANGED <<rev, tsig, callers>>

\* SetRecords of part_001, first half: the AXFR round trip
SetRecords2Fetch(p, records) ==
    /\ rev = 2
    /\ Ready(p, "Set", records)
    /\ \E o \in Outcomes :
        LET r == roundTrip2(AxfrMsg, o)
            c == [Start(p, "Set", records) EXCEPT !.msgs = r.sent, !.answer = r.answer,
                                                  !.readAfter = OthersApplied(p)]
        IN  /\ call' = [call EXCEPT ![p] =
                    IF r.err # NoErr THEN Return(c, <<>>, r.err)
                    ELSE [c EXCEPT !.pc = "fetched"]]
            /\ zoneRRs' = r.zone
    /\ UNCHANGED <<rev, tsig, callers>>

\* a plausible slip: the test of the diff is inverted
RemoveRRs2Inverted(answer, insertRRs) ==
    LET m == {String(rr) : rr \in Range(insertRRs)}
    IN  SelectSeq(answer, LAMBDA rr : String(rr) \in m)

\* the diff of SetRecords in part_001: the fetched RRs whose text is not the
\* text of an RR to insert
RemoveRRs2(answer, insertRRs) ==
    LET m == {String(rr) : rr \in Range(insertRRs)}
    IN  SelectSeq(answer, LAMBDA rr : String(rr) \notin m)

\* SetRecords of part_001, second half: marshal, diff, the UPDATE round trip
SetRecords2Update(p) ==
    /\ rev = 2
    /\ p \in callers
    /\ call[p].pc = "fetched"
    /\ \E o \in Outcomes :
        LET c == call[p]
            m == marshalRecords2(ZoneName, c.records)
            r == roundTrip2(UpdateMsg(m.rrs, RemoveRRs2(c.answer, m.rrs)), o)
            c1 == [c EXCEPT !.msgs = c.msgs \o r.sent, !.updAfter = OthersApplied(p)]
        IN  IF m.err # NoErr
            THEN /\ call' = [call EXCEPT ![p] = Return(c, <<>>, m.err)]
                 /\ zoneRRs' = zoneRRs
            ELSE /\ call' = [call EXCEPT ![p] =
                        IF r.err # NoErr THEN Return(c1, <<>>, r.err)
                        ELSE Return(c1, unmarshalRecords2(ZoneName, m.rrs), NoErr)]
                 /\ zoneRRs' = r.zone
    /\ UNCHANGED <<rev, tsig, callers>>

\* the RR of one record in the loop of DeleteRecords in src/provider.go
DeleteLoopRR(zone, record) ==
    IF record.ID # NoID THEN parseRecordID(record.ID) ELSE marshalRecord(zone, record)

\* the RRs DeleteRecords of src/provider.go removes: the loop fills rrs from
\* the IDs, then marshalRecords' result is assigned to rrs over it
DeleteRRs1(zone, records) ==
    LET bad == {i \in 1..Len(records) : DeleteLoopRR(zone, records[i]).err # NoErr}
    IN  IF bad # {}
        THEN [err |-> DeleteLoopRR(zone,
                          records[CHOOSE i \in bad : \A j \in bad : i <= j]).err,
              rrs |-> <<>>]
        ELSE marshalRecords1(zone, records)

\* the RRs DeleteRecords of part_001 removes
DeleteRRs2(zone, records) ==
    LET b == FirstBad(zone, records)
    IN  IF b # 0
        THEN [err |-> marshalRecord(zone, records[b]).err, rrs |-> <<>>]
        ELSE marshalRecords2(zone, records)

\* DeleteRecords: the RRs to remove, one UPDATE round trip
DeleteRecords(p, records) ==
    /\ Ready(p, "Delete", records)
    /\ \E o \in Outcomes :
        LET c == Start(p, "Delete", records)
            m == IF rev = 1 THEN DeleteRRs1(ZoneName, records)
                 ELSE DeleteRRs2(ZoneName, records)
            r == roundTrip(UpdateMsg(<<>>, m.rrs), o)
            c1 == [c EXCEPT !.msgs = r.sent, !.updAfter = OthersApplied(p)]
        IN  IF m.err # NoErr
            THEN /\ call' = [call EXCEPT ![p] = Return(c, <<>>, m.err)]
                 /\ zoneRRs' = zoneRRs
            ELSE /\ call' = [call EXCEPT ![p] =
                        IF r.err # NoErr THEN Return(c1, <<>>, r.err)
                        ELSE Return(c1, unmarshalRecords(ZoneName, m.rrs), NoErr)]
                 /\ zoneRRs' = r.zone
    /\ UNCHANGED <<rev, tsig, callers>>

(***************************************************************************)
(* Specifications                                                          *)
(***************************************************************************)
InitCommon ==
    /\ rev \in {1, 2}
    /\ zoneRRs \in SUBSET ZoneDomain
    /\ call = [p \in Procs |-> IdleCall]

\* one caller
Init == InitCommon /\ tsig \in TSIGs /\ callers = {1}

Next ==
    \E p \in Procs :
        \/ GetRecords(p)
        \/ \E records \in Args(p, Lists) : AppendRecords(p, records)
        \/ \E records \in Args(p, Lists) : SetRecords1(p, records)
        \/ \E records \in Args(p, Lists) : SetRecords2Fetch(p, records)
        \/ SetRecords2Update(p)
        \/ \E records \in Args(p, Lists) : DeleteRecords(p, records)

Spec == Init /\ [][Next]_vars

\* two callers, each making one SetRecords call on the same zone, through a
\* provider without credential or with a well-formed one
InitRace ==
    InitCommon /\ tsig \in GoodTSIGs /\ callers = Procs

NextRace ==
    \E p \in Procs :
        \/ \E records \in Args(p, RaceLists) : SetRecords1(p, records)
        \/ \E records \in Args(p, RaceLists) : SetRecords2Fetch(p, records)
        \/ SetRecords2Update(p)

SpecRace == InitRace /\ [][NextRace]_vars

(***************************************************************************)
(* Properties                                                              *)
(***************************************************************************)
Done(p) == call[p].pc = "done"
Sent(p) == call[p].msgs
UpdatesSent(p) == SelectSeq(Sent(p), LAMBDA e : e.msg.kind = "UPDATE")
Marshalled(records) ==
    [i \in 1..Len(records) |-> marshalRecord(ZoneName, records[i]).rr]
\* the call returned without error
Succeeded(p) == Done(p) /\ call[p].err = NoErr

\* C1  Full wipe: a successful SetRecords(zone, []) on a non-empty zone, with
\* no other writer, leaves the zone empty: its one update removes every
\* record the zone held.
C1_FullWipe ==
    \A p \in callers :
        (Succeeded(p) /\ call[p].op = "Set" /\ call[p].records = <<>>
            /\ call[p].zoneBefore # {})
        => /\ zoneRRs = {}
           /\ Len(UpdatesSent(p)) = 1
           /\ Range(UpdatesSent(p)[1].msg.remove) = call[p].zoneBefore

\* C2  Idempotence: a successful SetRecords(zone, X) that follows a successful
\* SetRecords(zone, X) of the only writer leaves the zone's record set as
\* the first call left it.
C2_SetIdempotent ==
    \A p \in callers :
        (Succeeded(p) /\ call[p].op = "Set" /\ call[p].again)
        => zoneRRs = call[p].zoneBefore

C2_Witness ==
    \E p \in callers :
        /\ Succeeded(p) /\ call[p].op = "Set" /\ call[p].again
        /\ Len(call[p].records) = 2
        /\ call[p].records[1] # call[p].records[2]
        /\ zoneRRs # {}

\* C3  DeleteRecords sends one update and no zone transfer, and the update
\* removes one record per record passed in: the one parsed from the record's
\* ID if it has an ID, the one marshalled from its fields if it has none.
C3_DeleteRemovesByID ==
    \A p \in callers :
        (Done(p) /\ call[p].op = "Delete" /\ Sent(p) # <<>>)
        => /\ Len(Sent(p)) = 1
           /\ Sent(p)[1].msg.kind = "UPDATE"
           /\ Sent(p)[1].msg.insert = <<>>
           /\ Sent(p)[1].msg.remove =
                [i \in 1..Len(call[p].records) |->
                    DeleteLoopRR(ZoneName, call[p].records[i]).rr]

\* C4  Server rejection: a reply with an rcode other than NOERROR ends the
\* call: it is the last message of the call, the call returns the error
\* naming that rcode, and it returns no records.
C4_RejectionEndsCall ==
    \A p \in callers : \A i \in 1..Len(Sent(p)) :
        Sent(p)[i].rcode # "NOERROR"
        => /\ i = Len(Sent(p))
           /\ Done(p)
           /\ call[p].err = Err("DNS error", Sent(p)[i].rcode)
           /\ call[p].ret = <<>>

C4_Witness ==
    \E p \in callers :
        /\ Done(p) /\ call[p].op = "Set" /\ call[p].records # <<>>
        /\ Len(Sent(p)) = 1
        /\ Sent(p)[1].msg.kind = "AXFR"
        /\ Sent(p)[1].rcode = "REFUSED"

\* the credential is set and is not three non-empty fields with a base64 secret
BadCredential(t) ==
    /\ t # <<"">>
    /\ \/ Len(t) # 3
       \/ \E i \in 1..Len(t) : t[i] = ""
       \/ ~ValidBase64(t[3])

CredentialErrors == {"invalid TSIG format", "invalid TSIG secret", "dns: bad base64"}

\* C5  Credential validation fails fast: with a credential that is not three
\* non-empty colon-separated fields, or whose secret is not base64, every
\* call (whose records marshal) returns a credential error and no message is
\* sent.
C5_BadCredentialFailsFast ==
    \A p \in callers :
        (BadCredential(tsig) /\ Done(p) /\ FirstBad(ZoneName, call[p].records) = 0
            /\ \A i \in 1..Len(call[p].records) :
                    DeleteLoopRR(ZoneName, call[p].records[i]).err = NoErr)
        => /\ call[p].err.kind \in CredentialErrors
           /\ Sent(p) = <<>>

\* C6  A malformed record aborts the batch: when a record passed to
\* AppendRecords, SetRecords or DeleteRecords does not marshal, wherever it
\* stands in the list, the call returns an error and no records, sends no
\* update, and the zone is as it was.
C6_MalformedAbortsBatch ==
    \A p \in callers :
        (Done(p) /\ call[p].op \in {"Append", "Set", "Delete"}
            /\ FirstBad(ZoneName, call[p].records) # 0)
        => /\ call[p].err # NoErr
           /\ call[p].ret = <<>>
           /\ UpdatesSent(p) = <<>>
           /\ zoneRRs = call[p].zoneBefore

C6_Witness ==
    \E p \in callers :
        /\ Done(p) /\ call[p].op = "Append" /\ tsig = <<"">>
        /\ Len(call[p].records) = 2
        /\ marshalRecord(ZoneName, call[p].records[1]).err = NoErr
        /\ marshalRecord(ZoneName, call[p].records[2]).err # NoErr

\* the record's data is in the form the RR prints it in
WellFormed(record) ==
    LET d == ParseRdata(record.Type, record.Value)
    IN  d.ok /\ d.rdata = record.Value

\* C7  Codec round trip: the records AppendRecords returns, which are
\* unmarshal(zone, marshal(zone, r)) of the records r passed in, have r's
\* relative name, type and (well-formed) data, and r's TTL floored to whole
\* seconds.
C7_CodecRoundTrip ==
    \A p \in callers :
        (Succeeded(p) /\ call[p].op = "Append")
        => /\ Len(call[p].ret) = Len(call[p].records)
           /\ \A i \in 1..Len(call[p].records) :
                LET r == call[p].records[i]
                    u == call[p].ret[i]
                IN  WellFormed(r)
                    => /\ u.Name = r.Name
                       /\ u.Type = r.Type
                       /\ u.Value = r.Value
                       /\ u.TTL = (r.TTL \div Second) * Second

\* C8  SetRecords remove-set: the update SetRecords sends removes exactly the
\* records the zone holds whose text is not the text of a marshalled desired
\* record (none, when every record of the zone is desired).
C8_SetRemovesStale ==
    \A p \in callers :
        (Done(p) /\ call[p].op = "Set" /\ UpdatesSent(p) # <<>>)
        => Range(UpdatesSent(p)[1].msg.remove) =
              { rr \in call[p].zoneBefore :
                  String(rr) \notin
                      {String(x) : x \in Range(Marshalled(call[p].records))} }

\* C10  AppendRecords is pure insert and GetRecords pure fetch: AppendRecords
\* sends no zone transfer and at most one update, which inserts the
\* marshalled form of every record passed in and removes nothing; GetRecords
\* sends only a zone transfer and leaves the zone as it was.
C10_AppendInsertsGetFetches ==
    \A p \in callers :
        /\ (Done(p) /\ call[p].op = "Append")
            => /\ Len(Sent(p)) <= 1
               /\ \A i \in 1..Len(Sent(p)) :
                    /\ Sent(p)[i].msg.kind = "UPDATE"
                    /\ Sent(p)[i].msg.insert = Marshalled(call[p].records)
                    /\ Sent(p)[i].msg.remove = <<>>
        /\ (Done(p) /\ call[p].op = "Get")
            => /\ Len(Sent(p)) <= 1
               /\ \A i \in 1..Len(Sent(p)) : Sent(p)[i].msg.kind = "AXFR"
               /\ zoneRRs = call[p].zoneBefore

C10_Witness ==
    \E p \in callers :
        /\ Succeeded(p) /\ call[p].op = "Append"
        /\ Len(call[p].records) = 2
        /\ Len(Sent(p)) = 1
        /\ zoneRRs # call[p].zoneBefore

(***************************************************************************)
(* Two racing SetRecords calls                                             *)
(***************************************************************************)
\* the update SetRecords builds for the records when its zone transfer (if it
\* makes one) returns current
SetUpdate(records, current) ==
    LET m == marshalRecords(ZoneName, records)
    IN  IF rev = 1
        THEN UpdateMsg(m.rrs,
                 RemoveRRs1(records, {String(rr) : rr \in Range(m.rrs)}).rrs)
        ELSE UpdateMsg(m.rrs, RemoveRRs2(SetToSeq(current), m.rrs))

\* the zone after SetRecords(first) and then SetRecords(second), run one
\* after the other from the zone z0
OneAfterTheOther(z0, first, second) ==
    LET z1 == ServerApply(z0, SetUpdate(first, z0))
    IN  ServerApply(z1, SetUpdate(second, z1))

\* both calls returned without error, a's update was applied before b's
AppliedInOrder(a, b) ==
    /\ a # b
    /\ Succeeded(a) /\ Succeeded(b)
    /\ call[a].op = "Set" /\ call[b].op = "Set"
    /\ call[a].updAfter = {}
    /\ call[b].updAfter = {a}

\* C9 as stated: the order in which the server applies the two updates alone
\* determines the final zone, whatever the interleaving of the two reads: it
\* is the zone that the two calls, run one after the other in that order,
\* leave.
C9_UpdateOrderAlone ==
    \A a, b \in Procs :
        AppliedInOrder(a, b)
        => zoneRRs = OneAfterTheOther(call[a].zoneBefore, call[a].records,
                                      call[b].records)

\* b's call made a zone transfer
Fetched(b) == \E i \in 1..Len(Sent(b)) : Sent(b)[i].msg.kind = "AXFR"

\* C9 amended: of two racing SetRecords calls that each read the zone and then
\* send one update, the final zone holds every record of the call whose
\* update is applied last, and it is exactly that call's record set when that
\* call's read was answered after the other call's update was applied.
C9_LastWriteKeepsItsRecords ==
    \A a, b \in Procs :
        (AppliedInOrder(a, b) /\ Fetched(b))
        => /\ Range(Marshalled(call[b].records)) \subseteq zoneRRs
           /\ (a \in call[b].readAfter
                => zoneRRs = Range(Marshalled(call[b].records)))

\* both reads were answered before either update, and a record of the first
\* update outlives the second
C9_Witness ==
    \E a, b \in Procs :
        /\ AppliedInOrder(a, b) /\ Fetched(a) /\ Fetched(b)
        /\ call[a].readAfter = {} /\ call[b].readAfter = {}
        /\ zoneRRs # Range(Marshalled(call[b].records))

=============================================================================
